---- MODULE Spec2Model ----
(***************************************************************************)
(* Celestial Spark: the star-selection canvas (StarCanvas), the result     *)
(* card (SparkCard), the generation service (geminiService) and the phase  *)
(* orchestrator (App), as one state machine.                               *)
(*                                                                         *)
(* React is modelled at the granularity of its event loop: one action is   *)
(* one event handler, timer callback or promise continuation, together     *)
(* with the render and the effects that React commits before the next      *)
(* event is dispatched.                                                    *)
(***************************************************************************)
EXTENDS Integers, Sequences, FiniteSets, TLC

\* ------------------------------------------------------------------ bounds
\* Stars in a field (the program draws TOTAL_STARS = 80; the model draws fewer).
FieldStars == 2
\* startJourney may run while canvasKey < MaxCycles.
MaxCycles == 2
\* handleEdit may run on an image that has been edited fewer than MaxEdits times.
MaxEdits == 1
\* Wall-clock time advances in steps of TickMs milliseconds.
TickMs == 500

\* ------------------------------------------------------- program constants
CONNECTION_SPEED == 200
CONNECTION_BUFFER == 500
REQUIRED_STARS == 5
HIT_RADIUS == 50

\* constellationData and generatedImage before they are set (null). What the
\* backend returns is opaque: a metadata value is known by where it came from
\* (src) and an image by how many edits it went through (rev). Their cycle, like
\* the key of a timer or call, is the canvasKey under which the selection they
\* stem from was made; the program keeps no such tag.
NO_METADATA == [src |-> "null", cycle |-> 0]
NO_IMAGE == [cycle |-> 0, rev |-> 0, src |-> "null"]

\* AppPhase
INTRO == "INTRO"
SELECTING == "SELECTING"
CONNECTING == "CONNECTING"
GENERATING_METADATA == "GENERATING_METADATA"
GENERATING_IMAGE == "GENERATING_IMAGE"
RESULT == "RESULT"
EDITING == "EDITING"
AppPhase ==
    {INTRO, SELECTING, CONNECTING, GENERATING_METADATA, GENERATING_IMAGE, RESULT, EDITING}

\* ------------------------------------------------------------------ inputs
\* Positions Math.random() gives a star in the model, and the positions of
\* pointer taps, both relative to the canvas rectangle.
Positions == <<<<0, 0>>, <<30, 40>>>>
TapPoints == {<<0, 0>>, <<30, 40>>, <<12, 16>>, <<100, 100>>}
\* Text typed into the card's edit box.
Instructions == {<<>>, <<" ">>, <<"g", " ">>}
\* How a call to the generation backend can end.
MetadataOutcomes == {"json", "reject", "no_text", "bad_json"}
ImageOutcomes == {"image", "reject", "no_image"}

VARIABLES
    \* App
    phase, appSelectedStars, starCount, constellationData, generatedImage, canvasKey,
    \* StarCanvas (the instance mounted under the current key)
    stars, selectedStars, isAnimatingConnection,
    \* the host: pending setTimeout callbacks and outstanding backend calls
    timers, metaCalls, imageCalls, editCalls,
    \* history: ms since the 5th selection, callbacks invoked in this cycle,
    \* how the last backend call ended
    elapsed, fired, lastSettle,
    \* the host: requestAnimationFrame callbacks of the render loop not yet run
    frames

vars ==
    <<phase, appSelectedStars, starCount, constellationData, generatedImage, canvasKey,
      stars, selectedStars, isAnimatingConnection,
      timers, metaCalls, imageCalls, editCalls, elapsed, fired, lastSettle, frames>>

appVars == <<phase, appSelectedStars, starCount, constellationData, generatedImage, canvasKey>>
canvasVars == <<stars, selectedStars, isAnimatingConnection>>
callVars == <<metaCalls, imageCalls, editCalls>>

\* ------------------------------------------------------------ Star Field
\* initStars: TOTAL_STARS stars, ids 0.., each at a random position.
\* (size, alpha and isSelected are drawn too; nothing but the renderer reads them.)
Star(i, p) == [id |-> i, x |-> p[1], y |-> p[2]]

\* The draws the model considers, each giving star i (1..FieldStars) an index
\* into Positions: the positions alternating from the first, alternating from
\* the second, and every star on the first position.
Draws ==
    { [i \in 1..FieldStars |-> ((i - 1 + d) % Len(Positions)) + 1] : d \in {0, 1} }
        \cup { [i \in 1..FieldStars |-> 1] }

initStars ==
    { [i \in 1..FieldStars |-> Star(i - 1, Positions[draw[i]])] : draw \in Draws }

\* --------------------------------------------------------- sequences
RemoveAt(s, i) == SubSeq(s, 1, i - 1) \o SubSeq(s, i + 1, Len(s))

Max(a, b) == IF a >= b THEN a ELSE b

\* ------------------------------------------------------------ Render Loop
\* What canvas.getContext('2d') returns to one invocation of render.
Surfaces == {"2d", "none"}

\* animationFrameRef.current = requestAnimationFrame(render): the callback joins
\* the pending ones and is the one the instance's ref names from now on.
RequestFrame(pending, key) ==
    [i \in 1..Len(pending) |->
        IF pending[i].key = key THEN [pending[i] EXCEPT !.current = FALSE]
        ELSE pending[i]]
      \o <<[key |-> key, current |-> TRUE]>>

\* One invocation of render by the instance mounted under `key`: it returns
\* before requestAnimationFrame when canvasRef.current is null (the instance is
\* no longer mounted) and when getContext gives no context; otherwise it draws
\* the lines and the stars, which writes no state, and requests the next frame.
render(pending, key, mounted, surface) ==
    IF ~mounted THEN pending
    ELSE IF surface # "2d" THEN pending
    ELSE RequestFrame(pending, key)

\* Mutant of CancelFrame: the effect has no cleanup.
CancelFrameMissing(pending, key) == pending

\* The effect's cleanup: cancelAnimationFrame(animationFrameRef.current).
CancelFrame(pending, key) ==
    SelectSeq(pending, LAMBDA f : ~(f.key = key /\ f.current))

\* The render-loop effect re-run after a commit that changed stars or
\* selectedStars (or run at mount): the cleanup of the previous run, then
\* render(); the pending callbacks it can leave.
LoopEffect(pending, key) ==
    { render(CancelFrame(pending, key), key, TRUE, surface) : surface \in Surfaces }

\* ------------------------------------------------------ Selection Tracker
\* Math.pow(star.x - x, 2) + Math.pow(star.y - y, 2); the program compares the
\* square root of it with minDist, the model compares the squares.
DistSq(star, pt) ==
    (star.x - pt[1]) * (star.x - pt[1]) + (star.y - pt[2]) * (star.y - pt[2])

\* stars.forEach(star => { if (dist < minDist) { minDist = dist; closestStar = star } })
\* from index i on, with the index of the closest star so far (0: none yet) and
\* its squared distance.
RECURSIVE HitScan(_, _, _, _, _)
HitScan(field, i, pt, closest, minDistSq) ==
    IF i > Len(field) THEN closest
    ELSE IF DistSq(field[i], pt) < minDistSq
         THEN HitScan(field, i + 1, pt, i, DistSq(field[i], pt))
         ELSE HitScan(field, i + 1, pt, closest, minDistSq)

\* Mutant of ClosestStar: a star at exactly the hit radius is taken.
ClosestStarInclusive(field, pt) ==
    HitScan(field, 1, pt, 0, HIT_RADIUS * HIT_RADIUS + 1)

\* let closestStar = null; let minDist = 50; ... : the index of the star hit, or 0.
ClosestStar(field, pt) == HitScan(field, 1, pt, 0, HIT_RADIUS * HIT_RADIUS)

\* Mutant of NewSelection: a star already in the selection is not added again.
NewSelectionUnique(selection, star) ==
    IF \E i \in 1..Len(selection) : selection[i].id = star.id
    THEN selection
    ELSE Append(selection, star)

\* const newSelection = [...selectedStars, closestStar as Star];
NewSelection(selection, star) == Append(selection, star)

\* Mutant of InteractionIgnored: the isActive test left out.
InteractionIgnoredWhenFull(isActive, selection) ==
    Len(selection) >= REQUIRED_STARS

\* Mutant of InteractionIgnored: the length test off by one.
InteractionIgnoredOffByOne(isActive, selection) ==
    ~isActive \/ Len(selection) > REQUIRED_STARS

\* if (!isActive || selectedStars.length >= 5) return;
InteractionIgnored(isActive, selection) ==
    ~isActive \/ Len(selection) >= REQUIRED_STARS

\* ---------------------------------------------------- Connection Animator
\* Mutant of ConnectionDue: the re-entrancy guard left out.
ConnectionDueUnguarded(selection, animating) ==
    Len(selection) = REQUIRED_STARS

\* if (selectedStars.length === 5 && !isAnimatingConnection)
ConnectionDue(selection, animating) ==
    Len(selection) = REQUIRED_STARS /\ ~animating

\* const delay = (selectedStars.length * CONNECTION_SPEED) + 500;
ConnectionDelay(selection) ==
    Len(selection) * CONNECTION_SPEED + CONNECTION_BUFFER

\* Mutant of ConnectionEffect: the callback closes over the selection of the
\* render before the fifth star was added.
ConnectionEffectStale(selection, animating, key) ==
    IF ConnectionDue(selection, animating)
    THEN [animating |-> TRUE,
          set |-> <<[remaining |-> ConnectionDelay(selection),
                     stars |-> SubSeq(selection, 1, Len(selection) - 1),
                     key |-> key]>>]
    ELSE [animating |-> animating, set |-> <<>>]

\* One run of the connection effect: the new isAnimatingConnection and the
\* timers it sets. The timer's callback closes over the selection of this render.
ConnectionEffect(selection, animating, key) ==
    IF ConnectionDue(selection, animating)
    THEN [animating |-> TRUE,
          set |-> <<[remaining |-> ConnectionDelay(selection),
                     stars |-> selection, key |-> key]>>]
    ELSE [animating |-> animating, set |-> <<>>]

\* The effect's runs after a commit that changed selectedStars: once for the new
\* selection, and once more if that run changed isAnimatingConnection (a
\* dependency of the effect). A third run never has changed dependencies.
ConnectionEffectRuns(selection, animating, key) ==
    LET first == ConnectionEffect(selection, animating, key)
        second == IF first.animating # animating
                  THEN ConnectionEffect(selection, first.animating, key)
                  ELSE [animating |-> first.animating, set |-> <<>>]
    IN [animating |-> second.animating, set |-> first.set \o second.set]

\* Mutant of handleStarProgress: the length before the tap is reported.
handleStarProgressStale(count) == count - 1

\* onProgress(newSelection.length) -> handleStarProgress: setStarCount(count).
handleStarProgress(count) == count

\* handleCanvasInteraction, then the render and effects of the state it set.
Tap(pt) ==
    LET isActive == phase = SELECTING
        closestStar == ClosestStar(stars, pt)
        newSelection == NewSelection(selectedStars, stars[closestStar])
        effect == ConnectionEffectRuns(newSelection, isAnimatingConnection, canvasKey)
    IN IF InteractionIgnored(isActive, selectedStars) \/ closestStar = 0
       THEN UNCHANGED vars
       ELSE /\ selectedStars' = newSelection
            /\ starCount' = handleStarProgress(Len(newSelection))
            /\ frames' \in LoopEffect(frames, canvasKey)
            /\ isAnimatingConnection' = effect.animating
            /\ timers' = timers \o effect.set
            /\ elapsed' = IF Len(newSelection) = REQUIRED_STARS THEN 0 ELSE elapsed
            /\ UNCHANGED <<phase, appSelectedStars, constellationData, generatedImage,
                           canvasKey, stars, callVars, fired, lastSettle>>

\* window 'resize' -> initStars: a fresh field; the selection is left as it is.
Resize(field) ==
    /\ stars' = field
    /\ frames' \in LoopEffect(frames, canvasKey)
    /\ UNCHANGED <<appVars, selectedStars, isAnimatingConnection, timers, callVars,
                   elapsed, fired, lastSettle>>

\* TickMs of wall-clock time pass while a timeout is pending.
Tick ==
    /\ \E i \in 1..Len(timers) : timers[i].remaining > 0
    /\ timers' = [i \in 1..Len(timers) |->
                    [timers[i] EXCEPT !.remaining = Max(0, @ - TickMs)]]
    /\ elapsed' = elapsed + TickMs
    /\ UNCHANGED <<appVars, canvasVars, callVars, fired, lastSettle, frames>>

\* Mutant of RenderFrame: the draw step redraws the field (setStars) each frame.
RenderFrameRedraws(i) ==
    /\ frames' \in { render(RemoveAt(frames, i), frames[i].key,
                             frames[i].key = canvasKey, surface) : surface \in Surfaces }
    /\ stars' \in initStars
    /\ UNCHANGED <<appVars, selectedStars, isAnimatingConnection, timers, callVars,
                   elapsed, fired, lastSettle>>

\* A pending requestAnimationFrame callback runs.
RenderFrame(i) ==
    /\ frames' \in { render(RemoveAt(frames, i), frames[i].key,
                             frames[i].key = canvasKey, surface) : surface \in Surfaces }
    /\ UNCHANGED <<appVars, canvasVars, timers, callVars, elapsed, fired, lastSettle>>

\* ------------------------------------------------------- geminiService
FALLBACK == "fallback"
GEMINI == "gemini"

\* Mutant of generateConstellationMetadata: the catch block rethrows.
generateConstellationMetadataRethrows(outcome, key) ==
    IF outcome = "json"
    THEN [rejected |-> FALSE, value |-> [src |-> GEMINI, cycle |-> key]]
    ELSE [rejected |-> TRUE, value |-> NO_METADATA]

\* Mutant of generateConstellationMetadata: the empty-text check throws past
\* the fallback.
generateConstellationMetadataRejectsEmpty(outcome, key) ==
    IF outcome = "json"
    THEN [rejected |-> FALSE, value |-> [src |-> GEMINI, cycle |-> key]]
    ELSE IF outcome = "no_text"
    THEN [rejected |-> TRUE, value |-> NO_METADATA]
    ELSE [rejected |-> FALSE, value |-> [src |-> FALLBACK, cycle |-> key]]

\* generateConstellationMetadata for a request of cycle `key`: how its promise
\* settles. The try block throws when the transport rejects, when response.text
\* is empty and when JSON.parse fails; the catch block returns the placeholder.
\* A text that parses is an object, as the request's responseSchema demands.
generateConstellationMetadata(outcome, key) ==
    IF outcome = "json"
    THEN [rejected |-> FALSE, value |-> [src |-> GEMINI, cycle |-> key]]
    ELSE [rejected |-> FALSE, value |-> [src |-> FALLBACK, cycle |-> key]]

\* --- createConstellationSketch. Lengths on the sketch canvas are kept exact:
\* the target region in tenths of a pixel, a scale as a fraction <<n, d>>.
SKETCH_WIDTH == 768
SKETCH_HEIGHT == 1024

Abs(a) == IF a >= 0 THEN a ELSE -a
MinOf(S) == CHOOSE m \in S : \A e \in S : m <= e
MaxOf(S) == CHOOSE m \in S : \A e \in S : m >= e

\* const targetW = canvas.width * 0.6; const targetH = canvas.height * 0.4;
targetW == SKETCH_WIDTH * 6
targetH == SKETCH_HEIGHT * 4
\* const targetCenterX = canvas.width / 2; const targetCenterY = canvas.height * 0.35;
targetCenterX == SKETCH_WIDTH * 5
targetCenterY == (SKETCH_HEIGHT * 35) \div 10

\* const scaleX = width > 0 ? targetW / width : 1; (scaleY alike)
AxisScale(target, extent) == IF extent > 0 THEN <<target, 10 * extent>> ELSE <<1, 1>>

\* Mutant of SketchScale: the larger of the two axis scales.
SketchScaleMax(scaleX, scaleY) ==
    IF scaleX[1] * scaleY[2] >= scaleY[1] * scaleX[2] THEN scaleX ELSE scaleY

\* const scale = Math.min(scaleX, scaleY);
SketchScale(scaleX, scaleY) ==
    IF scaleX[1] * scaleY[2] <= scaleY[1] * scaleX[2] THEN scaleX ELSE scaleY

\* let minX = Infinity, maxX = -Infinity, ...; stars.forEach(...);
\* const width = maxX - minX; const height = maxY - minY;
BoundingBox(points) ==
    [minX |-> MinOf({ points[i].x : i \in 1..Len(points) }),
     minY |-> MinOf({ points[i].y : i \in 1..Len(points) }),
     width |-> MaxOf({ points[i].x : i \in 1..Len(points) })
                 - MinOf({ points[i].x : i \in 1..Len(points) }),
     height |-> MaxOf({ points[i].y : i \in 1..Len(points) })
                 - MinOf({ points[i].y : i \in 1..Len(points) })]

\* Mutant of DrawPoints: offsets are taken from the corner of the bounding box,
\* not from its centre.
DrawPointsFromCorner(points, box, scale) ==
    [den |-> 20 * scale[2],
     points |-> [i \in 1..Len(points) |->
        [x |-> targetCenterX * 2 * scale[2]
                 + (2 * points[i].x - 2 * box.minX) * scale[1] * 10,
         y |-> targetCenterY * 2 * scale[2]
                 + (2 * points[i].y - 2 * box.minY) * scale[1] * 10]]]

\* The points drawn for the stars, as numerators over the common denominator
\* den (pixels = numerator / den):
\*   relX = p.x - (minX + width / 2);  drawX = targetCenterX + relX * scale.
DrawPoints(points, box, scale) ==
    [den |-> 20 * scale[2],
     points |-> [i \in 1..Len(points) |->
        [x |-> targetCenterX * 2 * scale[2]
                 + (2 * points[i].x - (2 * box.minX + box.width)) * scale[1] * 10,
         y |-> targetCenterY * 2 * scale[2]
                 + (2 * points[i].y - (2 * box.minY + box.height)) * scale[1] * 10]]]

\* createConstellationSketch: the bounding box of the stars, the scale that
\* fits it into the target region, the points drawn. (The box and the scale
\* are bound as set elements so that each is computed once.)
createConstellationSketch(points) ==
    IF points = <<>> THEN [den |-> 1, points |-> <<>>]
    ELSE CHOOSE sketch \in UNION {
            { DrawPoints(points, box, scale) :
                scale \in { SketchScale(AxisScale(targetW, box.width),
                                        AxisScale(targetH, box.height)) } } :
            box \in { BoundingBox(points) } } : TRUE

\* generateCardImage: the first inlineData part of the response, or a throw
\* (rethrown by the catch block).
generateCardImage(outcome, key) ==
    IF outcome = "image"
    THEN [rejected |-> FALSE, value |-> [cycle |-> key, rev |-> 0, src |-> GEMINI]]
    ELSE [rejected |-> TRUE, value |-> NO_IMAGE]

\* editCardImage: the edited image, or a throw (rethrown by the catch block).
editCardImage(outcome, base64Image) ==
    IF outcome = "image"
    THEN [rejected |-> FALSE, value |-> [base64Image EXCEPT !.rev = @ + 1]]
    ELSE [rejected |-> TRUE, value |-> NO_IMAGE]

\* ---------------------------------------------------------------- App
\* Mutant of StartButtonShown: the button stays while stars are selected.
StartButtonShownWhileSelecting == phase \in {INTRO, SELECTING}

\* {phase === AppPhase.INTRO && ( ... <button onClick={startJourney}> ... )}
StartButtonShown == phase = INTRO

\* {(phase === RESULT || phase === EDITING) && constellationData && generatedImage && <SparkCard/>}
CardShown ==
    /\ phase \in {RESULT, EDITING}
    /\ constellationData # NO_METADATA
    /\ generatedImage # NO_IMAGE

\* SparkCard: isEditing={phase === AppPhase.EDITING}
isEditing == phase = EDITING

\* Mutant of ResetEnabled: the button is not disabled while an edit runs.
ResetEnabledWhileEditing == CardShown

\* <button onClick={onReset} disabled={isEditing}>
ResetEnabled == CardShown /\ ~isEditing

\* Mutant of EditFormEnabled: the form is not disabled while an edit runs.
EditFormEnabledWhileEditing == CardShown

\* <form onSubmit={handleEditSubmit}> whose input and submit button are
\* disabled={isEditing}.
EditFormEnabled == CardShown /\ ~isEditing

\* String.prototype.trim on a sequence of characters.
RECURSIVE TrimStart(_)
TrimStart(s) == IF s # <<>> /\ Head(s) = " " THEN TrimStart(Tail(s)) ELSE s
RECURSIVE TrimEnd(_)
TrimEnd(s) ==
    IF s # <<>> /\ s[Len(s)] = " " THEN TrimEnd(SubSeq(s, 1, Len(s) - 1)) ELSE s
Trim(s) == TrimEnd(TrimStart(s))

\* startJourney, and the remount of StarCanvas under the new key: the old
\* instance's render-loop cleanup runs, the new instance starts with an empty
\* selection, runs initStars and starts its own loop. Timeouts set by the old
\* instance are not cleared.
startJourney ==
    /\ canvasKey < MaxCycles
    /\ phase' = SELECTING
    /\ appSelectedStars' = <<>>
    /\ starCount' = 0
    /\ constellationData' = NO_METADATA
    /\ generatedImage' = NO_IMAGE
    /\ canvasKey' = canvasKey + 1
    /\ stars' \in initStars
    /\ selectedStars' = <<>>
    /\ isAnimatingConnection' = FALSE
    /\ elapsed' = 0
    /\ fired' = 0
    /\ lastSettle' = "none"
    /\ frames' \in LoopEffect(CancelFrame(frames, canvasKey), canvasKey + 1)
    /\ UNCHANGED <<timers, callVars>>

\* A click on REVEAL MY FUTURE.
Start == StartButtonShown /\ startJourney

\* A click on Dream Again.
Reset == ResetEnabled /\ startJourney

\* Mutant of handleStarsSelected: the image call is issued together with the
\* metadata call, with the placeholder prompt.
handleStarsSelectedConcurrent(timer) ==
    /\ appSelectedStars' = timer.stars
    /\ phase' = GENERATING_METADATA
    /\ metaCalls' = Append(metaCalls, [stars |-> timer.stars, key |-> timer.key])
    /\ imageCalls' = Append(imageCalls,
            [prompt |-> [src |-> FALLBACK, cycle |-> timer.key],
             stars |-> timer.stars, key |-> timer.key,
             sketch |-> createConstellationSketch(timer.stars)])
    /\ UNCHANGED <<starCount, constellationData, generatedImage, canvasKey, editCalls>>

\* handleStarsSelected up to its first await.
handleStarsSelected(timer) ==
    /\ appSelectedStars' = timer.stars
    /\ phase' = GENERATING_METADATA
    /\ metaCalls' = Append(metaCalls, [stars |-> timer.stars, key |-> timer.key])
    /\ UNCHANGED <<starCount, constellationData, generatedImage, canvasKey,
                   imageCalls, editCalls>>

\* The timeout set by the connection effect comes due: onStarsSelected(selectedStars).
TimerFire(i) ==
    /\ timers[i].remaining = 0
    /\ timers' = RemoveAt(timers, i)
    /\ fired' = fired + 1
    /\ handleStarsSelected(timers[i])
    /\ UNCHANGED <<canvasVars, elapsed, lastSettle, frames>>

\* Mutant of GenerationFailed: the catch block returns to the selection.
GenerationFailedToSelecting ==
    /\ phase' = SELECTING
    /\ UNCHANGED <<appSelectedStars, starCount, constellationData, generatedImage,
                   canvasKey>>

\* catch (error) { ...; setPhase(AppPhase.INTRO); }
GenerationFailed ==
    /\ phase' = INTRO
    /\ UNCHANGED <<appSelectedStars, starCount, constellationData, generatedImage,
                   canvasKey>>

\* handleStarsSelected from the metadata promise settling to the second await;
\* generateCardImage draws the sketch of the stars before it awaits the backend.
MetadataSettled(call, settled) ==
    IF settled.rejected
    THEN /\ GenerationFailed
         /\ UNCHANGED imageCalls
    ELSE /\ constellationData' = settled.value
         /\ phase' = GENERATING_IMAGE
         /\ imageCalls' = Append(imageCalls,
                 [prompt |-> settled.value, stars |-> call.stars, key |-> call.key,
                  sketch |-> createConstellationSketch(call.stars)])
         /\ UNCHANGED <<appSelectedStars, starCount, generatedImage, canvasKey>>

MetadataSettle(i, outcome) ==
    LET call == metaCalls[i]
        settled == generateConstellationMetadata(outcome, call.key)
    IN /\ metaCalls' = RemoveAt(metaCalls, i)
       /\ MetadataSettled(call, settled)
       /\ lastSettle' = IF outcome = "json" THEN "metadata_ok" ELSE "metadata_failed"
       /\ UNCHANGED <<canvasVars, timers, editCalls, elapsed, fired, frames>>

\* Mutant of ImageSettled: the result phase is entered whether or not the
\* image call succeeded.
ImageSettledAlwaysResult(settled) ==
    /\ generatedImage' = settled.value
    /\ phase' = RESULT
    /\ UNCHANGED <<appSelectedStars, starCount, constellationData, canvasKey>>

\* handleStarsSelected from the image promise settling to its end.
ImageSettled(settled) ==
    IF settled.rejected
    THEN GenerationFailed
    ELSE /\ generatedImage' = settled.value
         /\ phase' = RESULT
         /\ UNCHANGED <<appSelectedStars, starCount, constellationData, canvasKey>>

ImageSettle(i, outcome) ==
    LET call == imageCalls[i]
        settled == generateCardImage(outcome, call.key)
    IN /\ imageCalls' = RemoveAt(imageCalls, i)
       /\ ImageSettled(settled)
       /\ lastSettle' = IF outcome = "image" THEN "image_ok" ELSE "image_failed"
       /\ UNCHANGED <<canvasVars, timers, metaCalls, editCalls, elapsed, fired, frames>>

\* Mutant of handleEdit: the request is sent twice.
handleEditTwice(instruction) ==
    IF generatedImage = NO_IMAGE
    THEN UNCHANGED vars
    ELSE LET call == [image |-> generatedImage, instruction |-> instruction,
                      previousPhase |-> phase, metadata |-> constellationData,
                      key |-> canvasKey]
         IN /\ phase' = EDITING
            /\ editCalls' = Append(Append(editCalls, call), call)
            /\ UNCHANGED <<appSelectedStars, starCount, constellationData,
                           generatedImage, canvasKey, canvasVars, timers, metaCalls,
                           imageCalls, elapsed, fired, lastSettle, frames>>

\* handleEdit up to its await.
handleEdit(instruction) ==
    IF generatedImage = NO_IMAGE
    THEN UNCHANGED vars
    ELSE /\ phase' = EDITING
         /\ editCalls' = Append(editCalls,
                 [image |-> generatedImage, instruction |-> instruction,
                  previousPhase |-> phase, metadata |-> constellationData,
                  key |-> canvasKey])
         /\ UNCHANGED <<appSelectedStars, starCount, constellationData, generatedImage,
                        canvasKey, canvasVars, timers, metaCalls, imageCalls,
                        elapsed, fired, lastSettle, frames>>

\* handleEditSubmit: the card's form is submitted with editPrompt typed in.
EditSubmit(editPrompt) ==
    /\ EditFormEnabled
    /\ generatedImage.rev < MaxEdits
    /\ IF Trim(editPrompt) # <<>> THEN handleEdit(editPrompt) ELSE UNCHANGED vars

\* Mutant of EditFailurePhase: an edit failure handled like a generation failure.
EditFailurePhaseIntro(previousPhase) == INTRO

\* Mutant of EditFailurePhase: a failed edit leaves the phase at Editing.
EditFailurePhaseStuck(previousPhase) == EDITING

\* setPhase(previousPhase); // Return to result state even if fail
EditFailurePhase(previousPhase) == previousPhase

\* handleEdit from the edit promise settling to its end.
EditSettled(call, settled) ==
    IF settled.rejected
    THEN /\ phase' = EditFailurePhase(call.previousPhase)
         /\ UNCHANGED generatedImage
    ELSE /\ generatedImage' = settled.value
         /\ phase' = RESULT

EditSettle(i, outcome) ==
    LET call == editCalls[i]
        settled == editCardImage(outcome, call.image)
    IN /\ editCalls' = RemoveAt(editCalls, i)
       /\ EditSettled(call, settled)
       /\ lastSettle' = IF outcome = "image" THEN "edit_ok" ELSE "edit_failed"
       /\ UNCHANGED <<appSelectedStars, starCount, constellationData, canvasKey,
                      canvasVars, timers, metaCalls, imageCalls, elapsed, fired,
                      frames>>

\* ------------------------------------------------------- specification
\* index.tsx renders <App/>: phase INTRO, StarCanvas mounted under key 0 with its
\* first field drawn.
Init ==
    /\ phase = INTRO
    /\ appSelectedStars = <<>>
    /\ starCount = 0
    /\ constellationData = NO_METADATA
    /\ generatedImage = NO_IMAGE
    /\ canvasKey = 0
    /\ stars \in initStars
    /\ selectedStars = <<>>
    /\ isAnimatingConnection = FALSE
    /\ timers = <<>>
    /\ metaCalls = <<>>
    /\ imageCalls = <<>>
    /\ editCalls = <<>>
    /\ elapsed = 0
    /\ fired = 0
    /\ lastSettle = "none"
    /\ frames \in LoopEffect(<<>>, 0)

Next ==
    \/ Start
    \/ Reset
    \/ \E pt \in TapPoints : Tap(pt)
    \/ \E field \in initStars : Resize(field)
    \/ Tick
    \/ \E i \in 1..Len(frames) : RenderFrame(i)
    \/ \E i \in 1..Len(timers) : TimerFire(i)
    \/ \E i \in 1..Len(metaCalls), outcome \in MetadataOutcomes : MetadataSettle(i, outcome)
    \/ \E i \in 1..Len(imageCalls), outcome \in ImageOutcomes : ImageSettle(i, outcome)
    \/ \E editPrompt \in Instructions : EditSubmit(editPrompt)
    \/ \E i \in 1..Len(editCalls), outcome \in ImageOutcomes : EditSettle(i, outcome)

Spec == Init /\ [][Next]_vars

\* --- Progress: time passes while a timeout is pending, a timeout that is due
\* runs its callback, and every outstanding backend call settles.
Fairness ==
    /\ WF_vars(Tick)
    /\ WF_vars(\E i \in 1..Len(timers) : TimerFire(i))
    /\ WF_vars(\E i \in 1..Len(metaCalls), outcome \in MetadataOutcomes :
                  MetadataSettle(i, outcome))
    /\ WF_vars(\E i \in 1..Len(imageCalls), outcome \in ImageOutcomes :
                  ImageSettle(i, outcome))
    /\ WF_vars(\E i \in 1..Len(editCalls), outcome \in ImageOutcomes :
                  EditSettle(i, outcome))

LiveSpec == Init /\ [][Next]_vars /\ Fairness

\* --- The sketch on its own: the selections handleStarsSelected can be handed are
\* five stars at any positions of the viewport; the model takes the positions
\* from a grid that gives bounding boxes of zero and non-zero width and height,
\* wider than tall and taller than wide.
SketchGrid == { <<x, y>> : x \in {0, 30, 100}, y \in {0, 40, 100} }

SketchInputs ==
    { [i \in 1..REQUIRED_STARS |-> Star(i - 1, pick[i])] :
        pick \in [1..REQUIRED_STARS -> SketchGrid] }

\* The first cycle just after its connection timer fired, for each such selection.
SketchInit ==
    \E selection \in SketchInputs :
        /\ phase = GENERATING_METADATA
        /\ appSelectedStars = selection
        /\ starCount = Len(selection)
        /\ constellationData = NO_METADATA
        /\ generatedImage = NO_IMAGE
        /\ canvasKey = 1
        /\ stars = [i \in 1..FieldStars |-> Star(i - 1, Positions[1])]
        /\ selectedStars = selection
        /\ isAnimatingConnection = TRUE
        /\ timers = <<>>
        /\ metaCalls = <<[stars |-> selection, key |-> 1]>>
        /\ imageCalls = <<>>
        /\ editCalls = <<>>
        /\ elapsed = ConnectionDelay(selection)
        /\ fired = 1
        /\ lastSettle = "none"
        /\ frames = <<[key |-> 1, current |-> TRUE]>>

SketchNext ==
    \/ \E i \in 1..Len(metaCalls), outcome \in MetadataOutcomes : MetadataSettle(i, outcome)
    \/ \E i \in 1..Len(imageCalls), outcome \in ImageOutcomes : ImageSettle(i, outcome)

SketchSpec == SketchInit /\ [][SketchNext]_vars

\* ============================================================== claims
\* Steps of the orchestrator, recognised by what they do to the host.
IsStart == canvasKey' = canvasKey + 1
IsTimerFire == Len(timers') = Len(timers) - 1 /\ Len(metaCalls') = Len(metaCalls) + 1
IsMetadataSettle == Len(metaCalls') = Len(metaCalls) - 1
IsImageSettle == Len(imageCalls') = Len(imageCalls) - 1
IsEditRequest == Len(editCalls') = Len(editCalls) + 1
IsEditSettle == Len(editCalls') = Len(editCalls) - 1

\* C1: every change of the phase is Intro -> Selecting by a start, Selecting ->
\* GeneratingMetadata by the connection timer firing, GeneratingMetadata ->
\* GeneratingImage by the metadata call resolving, GeneratingImage -> Result by
\* the image call resolving, GeneratingMetadata -> Intro or GeneratingImage ->
\* Intro by a call rejecting, Result -> Editing by an edit request, Editing ->
\* Result by the edit call settling, or Result -> Selecting by a reset.
C1_PhaseChange ==
    \/ phase = INTRO /\ phase' = SELECTING /\ IsStart
    \/ phase = SELECTING /\ phase' = GENERATING_METADATA /\ IsTimerFire
    \/ phase = GENERATING_METADATA /\ phase' = GENERATING_IMAGE /\ IsMetadataSettle
                                   /\ Len(imageCalls') = Len(imageCalls) + 1
    \/ phase = GENERATING_IMAGE /\ phase' = RESULT /\ IsImageSettle
                                /\ lastSettle' = "image_ok"
    \/ phase = GENERATING_METADATA /\ phase' = INTRO /\ IsMetadataSettle
    \/ phase = GENERATING_IMAGE /\ phase' = INTRO /\ IsImageSettle
                                /\ lastSettle' = "image_failed"
    \/ phase = RESULT /\ phase' = EDITING /\ IsEditRequest
    \/ phase = EDITING /\ phase' = RESULT /\ IsEditSettle
    \/ phase = RESULT /\ phase' = SELECTING /\ IsStart

C2_SelectionCapped ==
    /\ [](Len(selectedStars) <= REQUIRED_STARS)
    /\ [][/\ (Len(selectedStars) = REQUIRED_STARS /\ canvasKey' = canvasKey)
                => selectedStars' = selectedStars
          /\ (phase = SELECTING /\ phase' # SELECTING)
                => Len(selectedStars) = REQUIRED_STARS]_vars

\* C2's case: 5 stars selected and the canvas still taking pointer events,
\* some time into the connection delay.
C2_Witness ==
    /\ Len(selectedStars) = REQUIRED_STARS
    /\ phase = SELECTING
    /\ elapsed > 0

\* C3: in a cycle the connection callback is invoked at most once, and exactly
\* once by the time the phase has left Selecting; it is invoked no earlier than
\* 5 * 200 + 500 ms after the 5th selection; and from the 5th selection on there
\* is exactly one callback, pending or invoked, never a second one.
C3_CallbackOnce ==
    /\ fired <= 1
    /\ Len(timers) + fired <= 1
    /\ Len(selectedStars) = REQUIRED_STARS => Len(timers) + fired = 1
    /\ fired = 1 => elapsed >= REQUIRED_STARS * CONNECTION_SPEED + CONNECTION_BUFFER
    /\ phase \in {GENERATING_METADATA, GENERATING_IMAGE, RESULT, EDITING} => fired = 1

\* C3's case: the callback has just been invoked, after the full delay.
C3_Witness ==
    /\ fired = 1
    /\ phase = GENERATING_METADATA
    /\ Len(selectedStars) = REQUIRED_STARS

\* The metadata call of this step ended in a transport or parsing failure.
IsMetadataFailure == IsMetadataSettle /\ lastSettle' = "metadata_failed"

\* C4 as stated: when the metadata call fails, the phase returns to Intro with
\* the selection, the metadata and the image empty, and no image call is issued.
C4_MetadataFailureToIntro ==
    [][IsMetadataFailure =>
          /\ phase' = INTRO
          /\ appSelectedStars' = <<>>
          /\ constellationData' = NO_METADATA
          /\ generatedImage' = NO_IMAGE
          /\ imageCalls' = imageCalls]_vars

\* C4 as amended: when the metadata call fails, the placeholder metadata is
\* stored, the phase advances to GeneratingImage, the selection is kept, and the
\* image call of the cycle is issued with the placeholder and that selection.
C4_MetadataFailureFallsBack ==
    [][IsMetadataFailure =>
          /\ phase' = GENERATING_IMAGE
          /\ constellationData'.src = FALLBACK
          /\ generatedImage' = NO_IMAGE
          /\ appSelectedStars' = appSelectedStars
          /\ Len(appSelectedStars') = REQUIRED_STARS
          /\ Len(imageCalls') = Len(imageCalls) + 1
          /\ imageCalls'[Len(imageCalls')].prompt = constellationData'
          /\ imageCalls'[Len(imageCalls')].stars = appSelectedStars']_vars

\* C4's case: the metadata call has failed and the cycle is generating the image.
C4_Witness ==
    /\ lastSettle = "metadata_failed"
    /\ phase = GENERATING_IMAGE
    /\ Len(imageCalls) = 1

\* C5: when the image call fails, the phase is Intro and neither metadata nor
\* image is held.
C5_ImageFailureClearsMetadata ==
    [][(IsImageSettle /\ lastSettle' = "image_failed") =>
          /\ phase' = INTRO
          /\ constellationData' = NO_METADATA
          /\ generatedImage' = NO_IMAGE]_vars

\* C6: an edit call that fails returns the phase to Result with the image and
\* the metadata held when the edit was requested; one that succeeds returns to
\* Result with the image replaced by the edited one and the metadata unchanged.
C6_EditSettles ==
    [][IsEditSettle =>
          \E i \in 1..Len(editCalls) :
              /\ editCalls' = RemoveAt(editCalls, i)
              /\ phase' = RESULT
              /\ constellationData' = editCalls[i].metadata
              /\ constellationData' = constellationData
              /\ lastSettle' \in {"edit_ok", "edit_failed"}
              /\ lastSettle' = "edit_failed" =>
                    /\ generatedImage' = editCalls[i].image
                    /\ generatedImage' = generatedImage
              /\ lastSettle' = "edit_ok" =>
                    /\ generatedImage' # generatedImage
                    /\ generatedImage' = [editCalls[i].image EXCEPT !.rev = @ + 1]]_vars

\* C6's case: an edit has failed and the card is back in Result.
C6_Witness ==
    /\ lastSettle = "edit_failed"
    /\ phase = RESULT
    /\ CardShown

\* C7: every pending timer and every outstanding call belongs to the current
\* cycle and the phase is the one that waits for it, so that what it does when
\* it comes back is done to the cycle that issued it; and the metadata and the
\* image held are those of the current cycle.
C7_NoStaleResponse ==
    /\ \A i \in 1..Len(timers) :
          timers[i].key = canvasKey /\ phase = SELECTING
    /\ \A i \in 1..Len(metaCalls) :
          metaCalls[i].key = canvasKey /\ phase = GENERATING_METADATA
    /\ \A i \in 1..Len(imageCalls) :
          imageCalls[i].key = canvasKey /\ phase = GENERATING_IMAGE
    /\ \A i \in 1..Len(editCalls) :
          /\ editCalls[i].key = canvasKey
          /\ phase = EDITING
          /\ generatedImage = editCalls[i].image
    /\ constellationData # NO_METADATA => constellationData.cycle = canvasKey
    /\ generatedImage # NO_IMAGE => generatedImage.cycle = canvasKey

\* C7's case: a call outstanding in a cycle that was started over.
C7_Witness ==
    /\ canvasKey = 2
    /\ Len(editCalls) = 1

\* C8: a metadata call and an image call are never outstanding together, and an
\* image call carries the metadata that the metadata call of its own cycle
\* settled with.
C8_MetadataBeforeImage ==
    /\ Len(metaCalls) + Len(imageCalls) <= 1
    /\ \A i \in 1..Len(imageCalls) :
          /\ imageCalls[i].prompt # NO_METADATA
          /\ imageCalls[i].prompt.cycle = imageCalls[i].key
          /\ imageCalls[i].prompt = constellationData
          /\ lastSettle \in {"metadata_ok", "metadata_failed"}

\* C8's case: the image call is outstanding.
C8_Witness ==
    /\ Len(imageCalls) = 1
    /\ lastSettle = "metadata_ok"

C10_StartIsClean ==
    [][IsStart =>
          /\ phase \in {INTRO, RESULT}
          /\ phase' = SELECTING
          /\ appSelectedStars' = <<>>
          /\ starCount' = 0
          /\ constellationData' = NO_METADATA
          /\ generatedImage' = NO_IMAGE
          /\ stars' \in initStars
          /\ selectedStars' = <<>>
          /\ ~isAnimatingConnection'
          /\ timers' = <<>>]_vars

\* C10's case: just after the start of a second cycle.
C10_Witness ==
    /\ canvasKey = 2
    /\ phase = SELECTING
    /\ selectedStars = <<>>
    /\ timers = <<>>

\* The least squared distance from pt to a star of the field.
MinDistSq(field, pt) ==
    CHOOSE d \in { DistSq(field[i], pt) : i \in 1..Len(field) } :
        \A i \in 1..Len(field) : d <= DistSq(field[i], pt)

C11_Near(pt) == MinDistSq(stars, pt) < HIT_RADIUS * HIT_RADIUS

\* A tap at pt on the interactive canvas adds to the selection.
C11_Accepted(pt) == ENABLED (Tap(pt) /\ selectedStars' # selectedStars)

\* A tap at pt does something other than append a star of the field at the
\* least distance from pt and report the new length as the progress count.
C11_AcceptsOther(pt) ==
    ENABLED (/\ Tap(pt)
             /\ selectedStars' # selectedStars
             /\ ~ \E i \in 1..Len(stars) :
                    /\ DistSq(stars[i], pt) = MinDistSq(stars, pt)
                    /\ selectedStars' = Append(selectedStars, stars[i])
                    /\ starCount' = Len(selectedStars) + 1)

\* A tap at pt changes the selection or the progress count.
C11_Changes(pt) ==
    ENABLED (Tap(pt) /\ (selectedStars' # selectedStars \/ starCount' # starCount))

\* C11: a tap on the canvas while stars are being selected is accepted exactly
\* when the selection has fewer than 5 entries and the least Euclidean distance
\* from the tap to a star is strictly below 50; the star accepted is one at that
\* least distance; and a tap 50 or more away from every star changes neither
\* the selection nor the progress count.
C11_TapAcceptance ==
    \A pt \in TapPoints :
        /\ phase = SELECTING =>
              (C11_Accepted(pt) <=>
                  Len(selectedStars) < REQUIRED_STARS /\ C11_Near(pt))
        /\ ~C11_AcceptsOther(pt)
        /\ ~C11_Near(pt) => ~C11_Changes(pt)

\* C11's case: the later star of the field was accepted ahead of the earlier
\* one, both within the radius of a tap point and the later one nearer; and a
\* tap point lies at exactly 50 from a star of the field.
C11_Witness ==
    /\ phase = SELECTING
    /\ selectedStars # <<>>
    /\ selectedStars[Len(selectedStars)] = stars[2]
    /\ \E pt \in TapPoints :
          /\ DistSq(stars[2], pt) < DistSq(stars[1], pt)
          /\ DistSq(stars[1], pt) < HIT_RADIUS * HIT_RADIUS
    /\ \E pt \in TapPoints, i \in 1..Len(stars) :
          DistSq(stars[i], pt) = HIT_RADIUS * HIT_RADIUS

\* Every entry of the sequence is the same star.
AllSame(selection) ==
    \A i, j \in 1..Len(selection) : selection[i] = selection[j]

\* The stars of the field at the least distance from pt.
C12_Hit(pt) == { i \in 1..Len(stars) : DistSq(stars[i], pt) = MinDistSq(stars, pt) }

\* A tap at pt appends one of the stars it hits.
C12_Appends(pt) ==
    ENABLED (/\ Tap(pt)
             /\ \E i \in C12_Hit(pt) : selectedStars' = Append(selectedStars, stars[i])
             /\ starCount' = Len(selectedStars) + 1)

\* C12: a star already in the selection is accepted again, each accepted tap on
\* it appending one more entry; a selection of five entries of one star is
\* complete like any other: the connection is scheduled and the points the
\* timer holds and the metadata call is given are those five identical entries.
C12_SameStarAgain ==
    /\ \A pt \in TapPoints :
          (/\ phase = SELECTING
           /\ Len(selectedStars) < REQUIRED_STARS
           /\ C11_Near(pt)
           /\ \A i \in C12_Hit(pt) :
                 \E j \in 1..Len(selectedStars) : selectedStars[j].id = stars[i].id)
          => C12_Appends(pt)
    /\ (Len(selectedStars) = REQUIRED_STARS /\ AllSame(selectedStars)) =>
          /\ isAnimatingConnection
          /\ fired + Len(timers) = 1
          /\ \A i \in 1..Len(timers) : timers[i].stars = selectedStars
          /\ \A i \in 1..Len(metaCalls) : metaCalls[i].stars = selectedStars

\* C12's case: the metadata call is outstanding with five identical points.
C12_Witness ==
    /\ Len(metaCalls) = 1
    /\ Len(metaCalls[1].stars) = REQUIRED_STARS
    /\ AllSame(metaCalls[1].stars)
    /\ phase = GENERATING_METADATA

\* C13: an edit request made in a phase other than Result, and a start request
\* made in a phase other than Intro (the reset offered in Result excepted),
\* changes no state and issues no call: the controls that make the requests are
\* not rendered, or are disabled, in those phases.
C13_RequestsIgnored ==
    /\ phase # RESULT =>
          ~ENABLED <<\E editPrompt \in Instructions : EditSubmit(editPrompt)>>_vars
    /\ phase # INTRO => ~ENABLED <<Start>>_vars
    /\ phase # RESULT => ~ENABLED <<Reset>>_vars

\* C13's case: an edit is running, the card is on screen with its form and its
\* reset button disabled, and the start button is not rendered.
C13_Witness ==
    /\ phase = EDITING
    /\ CardShown
    /\ Len(editCalls) = 1
    /\ canvasKey < MaxCycles
    /\ generatedImage.rev < MaxEdits

\* C14: each entry of the selection is a star of the current field, with the
\* same id at the same position.
C14_SelectionInField ==
    \A i \in 1..Len(selectedStars) :
        \E j \in 1..Len(stars) : stars[j] = selectedStars[i]

\* The bounding box of the stars an image call was given.
C15_Width(call) ==
    MaxOf({ call.stars[i].x : i \in 1..Len(call.stars) })
        - MinOf({ call.stars[i].x : i \in 1..Len(call.stars) })
C15_Height(call) ==
    MaxOf({ call.stars[i].y : i \in 1..Len(call.stars) })
        - MinOf({ call.stars[i].y : i \in 1..Len(call.stars) })

\* C15: for every selection handed to the image call, the sketch has one point
\* per star; every drawn point lies inside the target region, 60% of the frame
\* wide and 40% of it high, centred at (frame width / 2, 0.35 x frame height);
\* and one positive scale serves both axes: between any two stars the drawn
\* offsets are the source offsets times the same factor. This includes
\* selections whose bounding box has zero width or zero height.
C15_SketchInTarget ==
    \A c \in 1..Len(imageCalls) :
        LET src == imageCalls[c].stars
            drawn == imageCalls[c].sketch.points
            den == imageCalls[c].sketch.den
        IN /\ Len(drawn) = Len(src)
           /\ den > 0
           /\ \A i \in 1..Len(drawn) :
                 /\ 2 * Abs(10 * drawn[i].x - targetCenterX * den) <= targetW * den
                 /\ 2 * Abs(10 * drawn[i].y - targetCenterY * den) <= targetH * den
           /\ \A i, j \in 1..Len(drawn) :
                 /\ (drawn[i].x - drawn[j].x) * (src[i].y - src[j].y)
                        = (drawn[i].y - drawn[j].y) * (src[i].x - src[j].x)
                 /\ src[i].x > src[j].x => drawn[i].x > drawn[j].x
                 /\ src[i].y > src[j].y => drawn[i].y > drawn[j].y

\* C15's case: an image call was issued for stars on one vertical line (zero
\* width, non-zero height), and its sketch spreads them.
C15_Witness ==
    /\ Len(imageCalls) = 1
    /\ C15_Width(imageCalls[1]) = 0
    /\ C15_Height(imageCalls[1]) > 0
    /\ \E i, j \in 1..REQUIRED_STARS :
          imageCalls[1].sketch.points[i].y # imageCalls[1].sketch.points[j].y

\* C16: every invocation of render requests the next one, also one that finds
\* no canvas or no 2D context, so the loop of the mounted canvas never stops:
\* a callback of the mounted instance is always pending.
C16_LoopNeverStops ==
    \E i \in 1..Len(frames) : frames[i].key = canvasKey

\* C17: the points the connection timer holds, the points the metadata call is
\* given and the points the image call is given are each the finalized
\* selection, its five entries in the order they were accepted; a resize after
\* the fifth selection changes none of them.
C17_FinalSelectionHandedOver ==
    /\ \A i \in 1..Len(timers) :
          timers[i].stars = selectedStars /\ Len(timers[i].stars) = REQUIRED_STARS
    /\ \A i \in 1..Len(metaCalls) :
          /\ metaCalls[i].stars = selectedStars
          /\ metaCalls[i].stars = appSelectedStars
          /\ Len(metaCalls[i].stars) = REQUIRED_STARS
    /\ \A i \in 1..Len(imageCalls) :
          /\ imageCalls[i].stars = selectedStars
          /\ imageCalls[i].stars = appSelectedStars
          /\ Len(imageCalls[i].stars) = REQUIRED_STARS

\* C17's case: the window was resized between the fifth selection and the
\* timer firing (the timer is pending, time has passed, and the fifth point is
\* no star of the current field), and the points are of two different stars, so
\* that the order shows.
C17_Witness ==
    /\ Len(timers) = 1
    /\ elapsed > 0
    /\ \A j \in 1..Len(stars) : stars[j] # timers[1].stars[REQUIRED_STARS]
    /\ timers[1].stars[1] # timers[1].stars[2]

\* C18: generateConstellationMetadata never rejects: whatever way the backend
\* call ends (transport failure, empty text, text that does not parse), it
\* resolves with the one placeholder; so the state a failed metadata call leaves
\* is GeneratingImage with the placeholder stored and the image call issued
\* with it, never Intro.
C18_MetadataNeverRejects ==
    /\ \A outcome \in MetadataOutcomes :
          /\ ~generateConstellationMetadata(outcome, canvasKey).rejected
          /\ outcome # "json" =>
                generateConstellationMetadata(outcome, canvasKey).value
                    = generateConstellationMetadata("reject", canvasKey).value
    /\ lastSettle = "metadata_failed" =>
          /\ phase = GENERATING_IMAGE
          /\ constellationData = [src |-> FALLBACK, cycle |-> canvasKey]
          /\ Len(imageCalls) = 1
          /\ imageCalls[1].prompt = constellationData
    /\ lastSettle = "metadata_ok" =>
          phase = GENERATING_IMAGE /\ constellationData.src = GEMINI

\* C18's case: a cycle whose metadata call failed went on, with the placeholder,
\* to its result.
C18_Witness ==
    /\ phase = RESULT
    /\ constellationData.src = FALLBACK
    /\ lastSettle = "image_ok"
    /\ CardShown

\* Steps that issue a backend call.
C19_MetadataIssued == Len(metaCalls') > Len(metaCalls)
C19_ImageIssued == Len(imageCalls') > Len(imageCalls)
C19_EditIssued == Len(editCalls') > Len(editCalls)
C19_CallIssued == C19_MetadataIssued \/ C19_ImageIssued \/ C19_EditIssued

\* The metadata call is issued by the connection timer, the first time it fires
\* in the cycle; the image call by the metadata call settling, before any other
\* call of the cycle has settled; an edit call by an edit request made in
\* Result, one call for the request and none outstanding beside it. After the
\* image call failed no call is issued before the next start (which clears
\* lastSettle), and after an edit failed none but a new edit request's.
C19_IssuedOnce ==
    /\ C19_MetadataIssued =>
          /\ IsTimerFire /\ fired = 0 /\ lastSettle = "none"
          /\ metaCalls = <<>> /\ Len(metaCalls') = 1
          /\ ~C19_ImageIssued /\ ~C19_EditIssued
    /\ C19_ImageIssued =>
          /\ IsMetadataSettle /\ fired = 1 /\ lastSettle = "none"
          /\ imageCalls = <<>> /\ Len(imageCalls') = 1
          /\ ~C19_EditIssued
    /\ C19_EditIssued =>
          /\ phase = RESULT /\ phase' = EDITING
          /\ lastSettle \in {"image_ok", "edit_ok", "edit_failed"}
          /\ editCalls = <<>> /\ Len(editCalls') = 1
    /\ lastSettle = "image_failed" => ~C19_CallIssued
    /\ lastSettle = "edit_failed" => ~C19_MetadataIssued /\ ~C19_ImageIssued

\* C19 as stated: nothing is retried, and after a failure of any call,
\* the metadata call's included, the step issues no call and none follows until
\* the user starts again or submits a new edit.
C19_NoCallAfterAnyFailure ==
    [][C19_IssuedOnce /\ (IsMetadataFailure => ~C19_CallIssued)]_vars

\* C19 as amended: nothing is retried; after the image call or an edit call
\* failed no call is issued until the user starts again or submits a new edit;
\* a failed metadata call is answered with the placeholder and followed by the
\* one image call of its cycle.
C19_NothingRetried ==
    [][C19_IssuedOnce /\ (IsMetadataFailure => C19_ImageIssued)]_vars

\* C19's case: in the second cycle an edit failed and the user has submitted a
\* new one, whose call is the only one outstanding.
C19_Witness ==
    /\ canvasKey = 2
    /\ lastSettle = "edit_failed"
    /\ phase = EDITING
    /\ Len(editCalls) = 1
    /\ metaCalls = <<>> /\ imageCalls = <<>>

\* The orchestrator waits for a timer or for a backend call.
C20_Waiting ==
    \/ phase = SELECTING /\ Len(selectedStars) = REQUIRED_STARS
    \/ phase \in {GENERATING_METADATA, GENERATING_IMAGE, EDITING}

\* C20: given that timers fire and calls settle, the wait that begins with the
\* fifth selection, and every stay in GeneratingMetadata, GeneratingImage or
\* Editing, leads to Result or Intro; and Editing is left for Result only, so
\* every entry into Editing is followed by Result.
C20_Progress ==
    /\ C20_Waiting ~> (phase \in {RESULT, INTRO})
    /\ [][(phase = EDITING /\ phase' # EDITING) => phase' = RESULT]_vars

\* C20's case: a cycle went from its fifth selection to the result, an edit was
\* requested and failed, and the phase is Result again.
C20_Witness ==
    /\ phase = RESULT
    /\ Len(selectedStars) = REQUIRED_STARS
    /\ lastSettle = "edit_failed"
    /\ editCalls = <<>>

\* A tap at pt changes something.
C21_TapActs(pt) == ENABLED <<Tap(pt)>>_vars

\* C21: a tap delivered in a phase other than Selecting changes nothing, the
\* selection and the progress count included; the selection and the count
\* change only in Selecting, or when a start empties them for the new cycle;
\* while a connection timer is pending the phase is Selecting; and the phase
\* is never Connecting.
C21_SelectingOnly ==
    /\ [](/\ phase # SELECTING => \A pt \in TapPoints : ~C21_TapActs(pt)
          /\ timers # <<>> => phase = SELECTING
          /\ phase # CONNECTING)
    /\ [][(selectedStars' # selectedStars \/ starCount' # starCount) =>
            \/ phase = SELECTING /\ phase' = SELECTING
            \/ IsStart /\ selectedStars' = <<>> /\ starCount' = 0]_vars

\* C21's case: the connection delay has run out and its callback has not run
\* yet: the phase is still Selecting; and a tap point is within the radius of a
\* star (a tap there would have been accepted before the fifth selection).
C21_Witness ==
    /\ Len(timers) = 1
    /\ timers[1].remaining = 0
    /\ phase = SELECTING
    /\ \E pt \in TapPoints : C11_Near(pt)

\* C22: the orchestrator's progress count is the length of the canvas's
\* selection, in every state and so after every tap, accepted or not; it lies
\* in 0..5; and it changes only by going up by 1 together with the selection,
\* within a cycle, or by going back to 0 at a start.
C22_CountIsLength ==
    /\ [](starCount = Len(selectedStars) /\ starCount \in 0..REQUIRED_STARS)
    /\ [][starCount' # starCount =>
            \/ /\ starCount' = starCount + 1
               /\ canvasKey' = canvasKey
               /\ Len(selectedStars') = Len(selectedStars) + 1
            \/ IsStart /\ starCount' = 0]_vars

\* C22's case: in the second cycle the count has started again from 0 and
\* stands at 3 after three accepted taps, the first cycle having ended with 5.
C22_Witness ==
    /\ canvasKey = 2
    /\ starCount = 3
    /\ Len(selectedStars) = 3

\* C23: at most one callback of the render loop is pending, it belongs to the
\* mounted canvas and is the one its ref names (so that the next change of the
\* field or the selection, or the teardown, cancels it before a new loop
\* starts); no callback of a canvas that was torn down is pending.
C23_OneFramePending ==
    /\ Len(frames) <= 1
    /\ \A i \in 1..Len(frames) : frames[i].key = canvasKey /\ frames[i].current

\* C23's case: the second canvas, after the teardown of the first and after
\* changes of its own selection, with its one callback pending.
C23_Witness ==
    /\ canvasKey = 2
    /\ Len(selectedStars) >= 2
    /\ Len(frames) = 1
    /\ frames[1].key = 2

\* C24: in the sketch of every image call the centre of the drawn points'
\* bounding box is the centre of the target region, (frame width / 2,
\* 0.35 x frame height); so when the stars all lie on one point, every drawn
\* point is that centre.
C24_SketchCentred ==
    \A c \in 1..Len(imageCalls) :
        LET drawn == imageCalls[c].sketch.points
            den == imageCalls[c].sketch.den
            xs == { drawn[i].x : i \in 1..Len(drawn) }
            ys == { drawn[i].y : i \in 1..Len(drawn) }
        IN /\ 10 * (MinOf(xs) + MaxOf(xs)) = 2 * targetCenterX * den
           /\ 10 * (MinOf(ys) + MaxOf(ys)) = 2 * targetCenterY * den
           /\ (C15_Width(imageCalls[c]) = 0 /\ C15_Height(imageCalls[c]) = 0) =>
                 \A i \in 1..Len(drawn) :
                    /\ 10 * drawn[i].x = targetCenterX * den
                    /\ 10 * drawn[i].y = targetCenterY * den

\* C24's case: an image call for one star chosen five times, away from the
\* origin, and its five drawn points.
C24_Witness ==
    /\ Len(imageCalls) = 1
    /\ Len(imageCalls[1].sketch.points) = REQUIRED_STARS
    /\ \A i \in 1..REQUIRED_STARS :
          imageCalls[1].stars[i].x = 100 /\ imageCalls[1].stars[i].y = 40

\* The pending callback i, when it runs, can change the field, the selection,
\* the animating flag, the phase or the progress count.
C25_FrameWrites(i) ==
    ENABLED (/\ RenderFrame(i)
             /\ <<stars, selectedStars, isAnimatingConnection, phase, starCount>>'
                    # <<stars, selectedStars, isAnimatingConnection, phase, starCount>>)

\* C25: no run of a render-loop callback changes the star field, the
\* selection, the animating flag, the phase or the progress count.
C25_RenderReadOnly ==
    \A i \in 1..Len(frames) : ~C25_FrameWrites(i)

\* C25's case: the loop of the second canvas is running, callback pending,
\* while the image is generated: each frame draws the field and the four lines
\* of the finished selection.
C25_Witness ==
    /\ Len(frames) = 1
    /\ canvasKey = 2
    /\ isAnimatingConnection
    /\ phase = GENERATING_IMAGE
====
